---- MODULE Spec2Model ----
(***************************************************************************)
(* Model of the namey tab-renaming plugin (src/src/main.rs,                *)
(* src/src/formatter.rs, src/src/context.rs).                              *)
(*                                                                         *)
(* A Rust string is a sequence of codepoints, each codepoint a one-element *)
(* TLA+ string.  Option<T> is a sequence of at most one element.           *)
(***************************************************************************)
EXTENDS Integers, Sequences, FiniteSets, TLC

None == <<>>
Some(x) == <<x>>
IsSome(o) == Len(o) = 1
Unwrap(o) == o[1]

\* ---------------------------------------------------------------- bounds
\* Longest string and largest length parameter given to truncate.
MaxStrLen == 5
MaxParam == 4
\* Lookups for one path that may be in flight at once.
MaxInFlight == 1
\* Longest folder and branch given to format_tab_name.
MaxNameLen == 3
\* Longest title given to extract_cwd_from_title.
MaxTitleLen == 5
\* Most keys in an option map given to from_config.
MaxKeys == 2

\* ------------------------------------------------------- string helpers
\* U+2026, one codepoint.
Ellipsis == "..."
\* A byte that is not valid UTF-8, and U+FFFD that replaces it.
InvalidByte == "0xFF"
Replacement == "U+FFFD"

WhiteSpace == {" ", "\n"}

\* s.chars().take(n)
Take(s, n) == SubSeq(s, 1, IF n < Len(s) THEN n ELSE Len(s))
\* s.chars().skip(n)
Skip(s, n) == SubSeq(s, n + 1, Len(s))

RECURSIVE TrimStart(_)
TrimStart(s) ==
    IF Len(s) > 0 /\ s[1] \in WhiteSpace THEN TrimStart(Skip(s, 1)) ELSE s

RECURSIVE TrimEnd(_)
TrimEnd(s) ==
    IF Len(s) > 0 /\ s[Len(s)] \in WhiteSpace
    THEN TrimEnd(SubSeq(s, 1, Len(s) - 1)) ELSE s

\* str::trim
Trim(s) == TrimEnd(TrimStart(s))

\* str::starts_with(char)
StartsWith(s, c) == Len(s) > 0 /\ s[1] = c

\* str::rfind(pat): position (1-based) of the last occurrence of pat
RFind(s, pat) ==
    LET hits == {i \in 1..Len(s) :
                    /\ i + Len(pat) - 1 <= Len(s)
                    /\ SubSeq(s, i, i + Len(pat) - 1) = pat}
    IN IF hits = {} THEN None
       ELSE Some(CHOOSE i \in hits : \A j \in hits : j <= i)

\* String::from_utf8_lossy
FromUtf8Lossy(bytes) ==
    [i \in 1..Len(bytes) |->
        IF bytes[i] = InvalidByte THEN Replacement ELSE bytes[i]]

\* ------------------------------------------------------------ formatter
DefaultConfig ==
    [folder_max_len |-> 10, folder_prefix_len |-> 5, folder_suffix_len |-> 4,
     branch_max_len |-> 5, branch_prefix_len |-> 1, branch_suffix_len |-> 4,
     separator |-> <<":">>, show_branch |-> TRUE]

DigitVal ==
    ("0" :> 0) @@ ("1" :> 1) @@ ("2" :> 2) @@ ("3" :> 3) @@ ("4" :> 4) @@
    ("5" :> 5) @@ ("6" :> 6) @@ ("7" :> 7) @@ ("8" :> 8) @@ ("9" :> 9)

RECURSIVE DigitsValue(_)
DigitsValue(ds) ==
    IF Len(ds) = 0 THEN 0
    ELSE 10 * DigitsValue(SubSeq(ds, 1, Len(ds) - 1)) + DigitVal[ds[Len(ds)]]

\* str::parse::<usize>().ok(): an optional '+', then one or more digits
ParseUsize(s) ==
    LET ds == IF StartsWith(s, "+") THEN Skip(s, 1) ELSE s
    IN IF Len(ds) > 0 /\ \A i \in 1..Len(ds) : ds[i] \in DOMAIN DigitVal
       THEN Some(DigitsValue(ds)) ELSE None

\* BTreeMap::get
Get(map, key) == IF key \in DOMAIN map THEN Some(map[key]) ELSE None

\* NumOr that turns a value that does not parse into 0
NumOr_zero_on_error(options, key, default) ==
    LET v == IF IsSome(Get(options, key))
             THEN ParseUsize(Unwrap(Get(options, key))) ELSE None
    IN IF IsSome(v) THEN Unwrap(v)
       ELSE IF IsSome(Get(options, key)) THEN 0 ELSE default

NumOr(options, key, default) ==
    LET v == IF IsSome(Get(options, key))
             THEN ParseUsize(Unwrap(Get(options, key))) ELSE None
    IN IF IsSome(v) THEN Unwrap(v) ELSE default

FromConfig(options) ==
    [folder_max_len |-> NumOr(options, "folder_max_len", DefaultConfig.folder_max_len),
     folder_prefix_len |-> NumOr(options, "folder_prefix_len", DefaultConfig.folder_prefix_len),
     folder_suffix_len |-> NumOr(options, "folder_suffix_len", DefaultConfig.folder_suffix_len),
     branch_max_len |-> NumOr(options, "branch_max_len", DefaultConfig.branch_max_len),
     branch_prefix_len |-> NumOr(options, "branch_prefix_len", DefaultConfig.branch_prefix_len),
     branch_suffix_len |-> NumOr(options, "branch_suffix_len", DefaultConfig.branch_suffix_len),
     separator |-> IF IsSome(Get(options, "separator"))
                   THEN Unwrap(Get(options, "separator"))
                   ELSE DefaultConfig.separator,
     show_branch |-> IF IsSome(Get(options, "show_branch"))
                     THEN Unwrap(Get(options, "show_branch")) # <<"f", "a", "l", "s", "e">>
                     ELSE DefaultConfig.show_branch]

\* truncate with no room reserved for the ellipsis
truncate_no_ellipsis_room(s, max_len, prefix_len, suffix_len) ==
    LET char_count == Len(s)
        needed == prefix_len + suffix_len
    IN IF char_count <= max_len THEN s
       ELSE IF prefix_len = 0 /\ suffix_len = 0 THEN Take(s, max_len)
       ELSE IF needed > max_len \/ prefix_len + suffix_len >= char_count
            THEN Take(s, max_len)
       ELSE Take(s, prefix_len) \o <<Ellipsis>> \o Skip(s, char_count - suffix_len)

\* truncate whose suffix skips suffix_len codepoints, not all but suffix_len
truncate_skip_suffix_len(s, max_len, prefix_len, suffix_len) ==
    LET char_count == Len(s)
        needed == prefix_len + 1 + suffix_len
    IN IF char_count <= max_len THEN s
       ELSE IF prefix_len = 0 /\ suffix_len = 0 THEN Take(s, max_len)
       ELSE IF needed > max_len \/ prefix_len + suffix_len >= char_count
            THEN Take(s, max_len)
       ELSE Take(s, prefix_len) \o <<Ellipsis>> \o Skip(s, suffix_len)

truncate(s, max_len, prefix_len, suffix_len) ==
    LET char_count == Len(s)
        needed == prefix_len + 1 + suffix_len
    IN IF char_count <= max_len THEN s
       ELSE IF prefix_len = 0 /\ suffix_len = 0 THEN Take(s, max_len)
       ELSE IF needed > max_len \/ prefix_len + suffix_len >= char_count
            THEN Take(s, max_len)
       ELSE Take(s, prefix_len) \o <<Ellipsis>> \o Skip(s, char_count - suffix_len)

\* format_tab_name that takes an empty branch for no branch
format_tab_name_skip_empty_branch(folder, branch, cfg) ==
    LET folder_display == truncate(folder, cfg.folder_max_len,
                                   cfg.folder_prefix_len, cfg.folder_suffix_len)
    IN IF IsSome(branch) /\ Len(Unwrap(branch)) > 0 /\ cfg.show_branch
       THEN folder_display \o cfg.separator \o
            truncate(Unwrap(branch), cfg.branch_max_len,
                     cfg.branch_prefix_len, cfg.branch_suffix_len)
       ELSE folder_display

format_tab_name(folder, branch, cfg) ==
    LET folder_display == truncate(folder, cfg.folder_max_len,
                                   cfg.folder_prefix_len, cfg.folder_suffix_len)
    IN IF IsSome(branch) /\ cfg.show_branch
       THEN folder_display \o cfg.separator \o
            truncate(Unwrap(branch), cfg.branch_max_len,
                     cfg.branch_prefix_len, cfg.branch_suffix_len)
       ELSE folder_display

\* -------------------------------------------------------------- context
RECURSIVE SplitOn(_, _)
SplitOn(s, sep) ==
    IF \A i \in 1..Len(s) : s[i] # sep THEN <<s>>
    ELSE LET i == CHOOSE k \in 1..Len(s) :
                      s[k] = sep /\ \A j \in 1..(k - 1) : s[j] # sep
         IN <<SubSeq(s, 1, i - 1)>> \o SplitOn(Skip(s, i), sep)

\* Path::file_name: the last component when it is a normal one.  Empty
\* components and "." are skipped, except a "." that starts a relative path.
FileName(cwd) ==
    LET segs == SplitOn(cwd, "/")
        has_root == StartsWith(cwd, "/")
        comps == {i \in 1..Len(segs) :
                     /\ segs[i] # <<>>
                     /\ segs[i] # <<".">> \/ (i = 1 /\ ~has_root)}
        last == CHOOSE i \in comps : \A j \in comps : j <= i
    IN IF comps = {} THEN None
       ELSE IF segs[last] \in {<<".">>, <<".", ".">>} THEN None
       ELSE Some(segs[last])

folder_name(cwd) == IF IsSome(FileName(cwd)) THEN Unwrap(FileName(cwd)) ELSE cwd

\* ----------------------------------------------------------------- main
\* is_our_command that only asks for a source tag, whatever its value
is_our_command_any_source(context) == IsSome(Get(context, "source"))

is_our_command(context) == Get(context, "source") = Some("namey")

\* extract_cwd_from_title that tries the whole title before the ": " marker
extract_cwd_from_title_whole_first(raw) ==
    LET title == Trim(raw)
        idx2 == RFind(title, <<":", " ">>)
        after2 == IF IsSome(idx2) THEN Trim(Skip(title, Unwrap(idx2) + 1)) ELSE <<>>
        idx1 == RFind(title, <<":">>)
        after1 == IF IsSome(idx1) THEN Trim(Skip(title, Unwrap(idx1))) ELSE <<>>
    IN IF Len(title) = 0 THEN None
       ELSE IF StartsWith(title, "/") \/ StartsWith(title, "~") THEN Some(title)
       ELSE IF IsSome(idx2) /\ (StartsWith(after2, "/") \/ StartsWith(after2, "~"))
            THEN Some(after2)
       ELSE IF IsSome(idx1) /\ (StartsWith(after1, "/") \/ StartsWith(after1, "~"))
            THEN Some(after1)
       ELSE None

extract_cwd_from_title(raw) ==
    LET title == Trim(raw)
        idx2 == RFind(title, <<":", " ">>)
        after2 == IF IsSome(idx2) THEN Trim(Skip(title, Unwrap(idx2) + 1)) ELSE <<>>
        idx1 == RFind(title, <<":">>)
        after1 == IF IsSome(idx1) THEN Trim(Skip(title, Unwrap(idx1))) ELSE <<>>
    IN IF Len(title) = 0 THEN None
       ELSE IF IsSome(idx2) /\ (StartsWith(after2, "/") \/ StartsWith(after2, "~"))
            THEN Some(after2)
       ELSE IF StartsWith(title, "/") \/ StartsWith(title, "~") THEN Some(title)
       ELSE IF IsSome(idx1) /\ (StartsWith(after1, "/") \/ StartsWith(after1, "~"))
            THEN Some(after1)
       ELSE None

parse_git_branch(stdout) ==
    LET branch == Trim(FromUtf8Lossy(stdout))
    IN IF Len(branch) = 0 THEN None ELSE Some(branch)

\* build_command_context that leaves the source tag out
build_command_context_untagged(path) == [path |-> path]

build_command_context(path) == [source |-> "namey", path |-> path]

GIT_BRANCH_SCRIPT == "git -C \"$1\" rev-parse --abbrev-ref HEAD 2>/dev/null"

VARIABLES
    config,             \* State.config
    current_cwd,        \* State.current_cwd : Option<String>
    current_tab_index,  \* State.current_tab_index
    current_tab_name,   \* State.current_tab_name
    loaded,             \* load() has run
    in_flight,          \* lookups dispatched and not yet answered, per path
    event,              \* the event the last handler received
    focused_pane,       \* the pane the last handle_pane_update found
    calls,              \* host calls the last handler made, in order
    args,               \* inputs of the pure function under check
    ret                 \* its results

vars == <<config, current_cwd, current_tab_index, current_tab_name, loaded,
          in_flight, event, focused_pane, calls, args, ret>>

state == <<config, current_cwd, current_tab_index, current_tab_name>>

\* ---------------------------------------------------- inputs of the host
\* Plugin configurations handed to load().
OptionMaps ==
    { <<>>,
      [folder_max_len |-> <<"3">>, folder_prefix_len |-> <<"1">>,
       folder_suffix_len |-> <<"1">>, branch_max_len |-> <<"+", "2">>,
       branch_prefix_len |-> <<"0">>, branch_suffix_len |-> <<"0">>],
      [folder_max_len |-> <<"x">>, branch_max_len |-> <<"-", "5">>,
       separator |-> <<"-">>, show_branch |-> <<"f", "a", "l", "s", "e">>] }

\* Pane titles.
Titles ==
    { <<"/", "a">>,
      <<"s", ":", "/", "a">>,
      <<"s", ":", " ", "/", "b", "/", "w", "x", "y", "z", " ">>,
      <<"v", "i", "m", "x">>,
      <<" ", "a", "\n">>,
      <<" ">> }

LookupPaths ==
    {Unwrap(extract_cwd_from_title(t)) :
        t \in {u \in Titles : IsSome(extract_cwd_from_title(u))}}

\* How many tabs the session has.
TabCounts == {1, 2}

PaneInfo(title, is_focused, is_plugin) ==
    [title |-> title, is_focused |-> is_focused, is_plugin |-> is_plugin]

\* The panes of one tab, in the order of the manifest's vector.
PaneLists ==
    {<<PaneInfo(t, TRUE, FALSE)>> : t \in Titles} \cup
    { <<PaneInfo(<<"/", "a">>, FALSE, FALSE)>>,
      <<PaneInfo(<<"/", "a">>, TRUE, TRUE),
        PaneInfo(<<"v", "i", "m", "x">>, FALSE, FALSE),
        PaneInfo(<<"s", ":", "/", "a">>, TRUE, FALSE)>> }

\* PaneManifest.panes : HashMap<usize, Vec<PaneInfo>>
\* The panes of a tab other than the first.
OtherPaneLists ==
    { <<PaneInfo(<<"s", ":", " ", "/", "b", "/", "w", "x", "y", "z", " ">>, TRUE, FALSE)>>,
      <<PaneInfo(<<"v", "i", "m", "x">>, TRUE, FALSE)>>,
      <<PaneInfo(<<"/", "a">>, FALSE, FALSE)>> }

PaneManifests ==
    {[t \in 0..(n - 1) |-> IF t = 0 THEN first ELSE other] :
        n \in TabCounts, first \in PaneLists, other \in OtherPaneLists}

TabNames == {<<"a">>, <<"T", "a", "b">>}

\* Vec<TabInfo>: positions 0..n-1, at most one tab active.
TabInfos ==
    UNION {
        {[i \in 1..n |-> [position |-> i - 1, name |-> names[i], active |-> (i = a)]] :
            names \in [1..n -> TabNames], a \in 0..n}
        : n \in TabCounts}

ExitCodes == {None, Some(0), Some(128)}

Stdouts ==
    { <<>>, <<" ", "\n">>, <<"m", "a", "i", "n", "\n">>, <<InvalidByte>> }

\* Correlation payloads of results this plugin did not ask for.
ForeignContexts ==
    { <<>>, [source |-> "other"], [source |-> "namey"],
      [path |-> <<"/", "a">>], [source |-> "other", path |-> <<"/", "a">>] }

\* ------------------------------------------------------------ host calls
RenameTab(position, name) ==
    [op |-> "rename_tab", position |-> position, name |-> name]

RunCommand(argv, context) ==
    [op |-> "run_command", argv |-> argv, context |-> context]

\* ------------------------------------------------------------------ Init
Init ==
    /\ config = DefaultConfig
    /\ current_cwd = None
    /\ current_tab_index = 0
    /\ current_tab_name = <<>>
    /\ loaded = FALSE
    /\ in_flight = [p \in LookupPaths |-> 0]
    /\ event = [kind |-> "None"]
    /\ focused_pane = None
    /\ calls = <<>>
    /\ args = <<>>
    /\ ret = <<>>

\* -------------------------------------------------------------- handlers
load(configuration) ==
    /\ ~loaded
    /\ loaded' = TRUE
    /\ config' = FromConfig(configuration)
    /\ event' = [kind |-> "Load", configuration |-> configuration]
    /\ calls' = <<>>
    /\ UNCHANGED <<current_cwd, current_tab_index, current_tab_name,
                   in_flight, focused_pane, args, ret>>

\* Event::TabUpdate
TabUpdate(tab_info) ==
    LET actives == {i \in 1..Len(tab_info) : tab_info[i].active}
        active_tab == tab_info[CHOOSE i \in actives : \A j \in actives : i <= j]
    IN /\ loaded
       /\ IF actives # {}
          THEN /\ current_tab_index' = active_tab.position
               /\ current_tab_name' = active_tab.name
          ELSE UNCHANGED <<current_tab_index, current_tab_name>>
       /\ event' = [kind |-> "TabUpdate", tab_info |-> tab_info]
       /\ calls' = <<>>
       /\ UNCHANGED <<config, current_cwd, loaded, in_flight, focused_pane,
                      args, ret>>

\* The first focused non-plugin pane of one tab's vector.
FirstFocused(panes) ==
    LET hits == {i \in 1..Len(panes) : panes[i].is_focused /\ ~panes[i].is_plugin}
    IN IF hits = {} THEN None
       ELSE Some(panes[CHOOSE i \in hits : \A j \in hits : i <= j])

\* panes.values().flatten().find(|p| p.is_focused && !p.is_plugin): the
\* manifest is a hash map, so values() visits the tabs in an arbitrary
\* order, and find() returns the first focused non-plugin pane of whichever
\* tab that has one comes first.  The set of panes it can return.
FindFocused(pane_manifest) ==
    LET withFocus == {t \in DOMAIN pane_manifest :
                         IsSome(FirstFocused(pane_manifest[t]))}
    IN IF withFocus = {} THEN {None}
       ELSE {FirstFocused(pane_manifest[t]) : t \in withFocus}

request_git_branch(path) ==
    /\ in_flight[path] < MaxInFlight
    /\ in_flight' = [in_flight EXCEPT ![path] = @ + 1]
    /\ calls' = <<RunCommand(<<"bash", "-c", GIT_BRANCH_SCRIPT, "_", path>>,
                             build_command_context(path))>>

\* PathChanged that only sees the first path of the session
PathChanged_first_only(cwd) == current_cwd = None

\* if self.current_cwd.as_ref() != Some(&cwd)
PathChanged(cwd) == current_cwd # Some(cwd)

\* TitleRename without the comparison to the current tab name
TitleRename_always(title) ==
    LET folder == Trim(title)
        new_name == format_tab_name(folder, None, config)
    IN IF Len(folder) > 0
       THEN <<RenameTab(current_tab_index, new_name)>>
       ELSE <<>>

\* The else branch of handle_pane_update: the title is the folder label.
TitleRename(title) ==
    LET folder == Trim(title)
        new_name == format_tab_name(folder, None, config)
    IN IF Len(folder) > 0 /\ new_name # current_tab_name
       THEN <<RenameTab(current_tab_index, new_name)>>
       ELSE <<>>

\* handle_pane_update, pane being the pane that find() returned.
handle_pane_update(pane) ==
    LET cwd == extract_cwd_from_title(Unwrap(pane).title)
    IN /\ focused_pane' = pane
       /\ IF IsSome(pane) /\ IsSome(cwd)
          THEN IF PathChanged(Unwrap(cwd))
               THEN /\ current_cwd' = Some(Unwrap(cwd))
                    /\ request_git_branch(Unwrap(cwd))
               ELSE /\ calls' = <<>>
                    /\ UNCHANGED <<current_cwd, in_flight>>
          ELSE /\ calls' = IF IsSome(pane) THEN TitleRename(Unwrap(pane).title)
                           ELSE <<>>
               /\ UNCHANGED <<current_cwd, in_flight>>
       /\ UNCHANGED <<config, current_tab_index, current_tab_name, loaded,
                      args, ret>>

\* Event::PaneUpdate
PaneUpdate(pane_manifest) ==
    /\ loaded
    /\ event' = [kind |-> "PaneUpdate", pane_manifest |-> pane_manifest]
    /\ \E pane \in FindFocused(pane_manifest) : handle_pane_update(pane)

\* LookupBranch that reads stdout whatever the exit code
LookupBranch_ignore_exit_code(exit_code, stdout) == parse_git_branch(stdout)

\* let branch = if exit_code == Some(0) { parse_git_branch(&stdout) } else { None }
LookupBranch(exit_code, stdout) ==
    IF exit_code = Some(0) THEN parse_git_branch(stdout) ELSE None

\* ResultRename that always renames the first tab
ResultRename_first_tab(path, branch) ==
    LET new_name == format_tab_name(folder_name(path), branch, config)
    IN IF new_name # current_tab_name
       THEN <<RenameTab(0, new_name)>>
       ELSE <<>>

\* The tail of handle_command_result: render the name, rename on a change.
ResultRename(path, branch) ==
    LET new_name == format_tab_name(folder_name(path), branch, config)
    IN IF new_name # current_tab_name
       THEN <<RenameTab(current_tab_index, new_name)>>
       ELSE <<>>

handle_command_result(exit_code, stdout, context) ==
    /\ calls' = IF ~is_our_command(context) THEN <<>>
                ELSE IF ~IsSome(Get(context, "path")) THEN <<>>
                ELSE ResultRename(Unwrap(Get(context, "path")),
                                  LookupBranch(exit_code, stdout))
    /\ UNCHANGED <<config, current_cwd, current_tab_index,
                   current_tab_name, loaded, focused_pane, args, ret>>

\* Event::RunCommandResult for a lookup this plugin dispatched.
LookupResult(exit_code, stdout, path) ==
    /\ loaded
    /\ in_flight[path] > 0
    /\ in_flight' = [in_flight EXCEPT ![path] = @ - 1]
    /\ event' = [kind |-> "RunCommandResult", exit_code |-> exit_code,
                 stdout |-> stdout, context |-> build_command_context(path)]
    /\ handle_command_result(exit_code, stdout, build_command_context(path))

\* Event::RunCommandResult for a command of somebody else.
ForeignResult(exit_code, stdout, context) ==
    /\ loaded
    /\ UNCHANGED in_flight
    /\ event' = [kind |-> "RunCommandResult", exit_code |-> exit_code,
                 stdout |-> stdout, context |-> context]
    /\ handle_command_result(exit_code, stdout, context)

Next ==
    \/ \E configuration \in OptionMaps : load(configuration)
    \/ \E tab_info \in TabInfos : TabUpdate(tab_info)
    \/ \E pane_manifest \in PaneManifests : PaneUpdate(pane_manifest)
    \/ \E exit_code \in ExitCodes, stdout \in Stdouts, path \in LookupPaths :
           LookupResult(exit_code, stdout, path)
    \/ \E exit_code \in ExitCodes, stdout \in {<<>>, <<"m", "a", "i", "n", "\n">>},
             context \in ForeignContexts :
           ForeignResult(exit_code, stdout, context)

Spec == Init /\ [][Next]_vars

\* ------------------------------------------------ session properties
\* The last event was a command result whose payload carries source =
\* "namey" and a path.
AcceptedResult ==
    /\ event.kind = "RunCommandResult"
    /\ "source" \in DOMAIN event.context
    /\ event.context.source = "namey"
    /\ "path" \in DOMAIN event.context

\* The title of the pane the last pane update found.
FoundTitle == Unwrap(focused_pane).title

\* C1: a lookup result tagged source = "namey" whose path is not the
\* tracked path makes no rename_tab call.
C1_StaleResultIgnored ==
    (AcceptedResult /\ current_cwd # Some(event.context.path)) => calls = <<>>

\* C2 as claimed: after a pane update whose focused title differs from the
\* title the previous pane update saw and exposes a path, a lookup for that
\* path has been dispatched.
C2_TitleChangeDispatches ==
    [][(/\ event'.kind = "PaneUpdate"
        /\ IsSome(focused_pane')
        /\ ~IsSome(focused_pane) \/ FoundTitle # FoundTitle'
        /\ IsSome(extract_cwd_from_title(FoundTitle')))
       => /\ Len(calls') = 1
          /\ calls'[1].op = "run_command"
          /\ calls'[1].context.path = Unwrap(extract_cwd_from_title(FoundTitle'))]_vars

\* C2 amended: after a pane update whose focused title exposes a path that
\* is not the tracked path, a lookup for that path has been dispatched,
\* whatever came before (a lookup still unanswered or failed, a title with
\* no path).
C2_PathChangeDispatches ==
    [][(/\ event'.kind = "PaneUpdate"
        /\ IsSome(focused_pane')
        /\ IsSome(extract_cwd_from_title(FoundTitle'))
        /\ current_cwd # extract_cwd_from_title(FoundTitle'))
       => /\ Len(calls') = 1
          /\ calls'[1].op = "run_command"
          /\ calls'[1].context.path = Unwrap(extract_cwd_from_title(FoundTitle'))
          /\ in_flight'[calls'[1].context.path] = in_flight[calls'[1].context.path] + 1]_vars

\* A lookup for /a was dispatched on a title change while the lookup for
\* the path tracked before is still unanswered.
C2_Witness ==
    /\ event.kind = "PaneUpdate"
    /\ calls = <<RunCommand(<<"bash", "-c", GIT_BRANCH_SCRIPT, "_", <<"/", "a">>>>,
                            [source |-> "namey", path |-> <<"/", "a">>])>>
    /\ in_flight[<<"/", "b", "/", "w", "x", "y", "z">>] = 1

\* C3: a handler that applies a name with rename_tab leaves that name in
\* current_tab_name.
C3_RenameRecorded ==
    (/\ event.kind \in {"PaneUpdate", "RunCommandResult"}
     /\ Len(calls) = 1
     /\ calls[1].op = "rename_tab")
    => current_tab_name = calls[1].name

\* C4: a pane update whose focused title yields a path P tracks P and
\* dispatches one lookup with the payload {source = "namey", path = P} when
\* P is not the tracked path, does nothing when it is, and never renames.
C4_PathUpdate ==
    [][(/\ event'.kind = "PaneUpdate"
        /\ IsSome(focused_pane')
        /\ IsSome(extract_cwd_from_title(FoundTitle')))
       => LET P == Unwrap(extract_cwd_from_title(FoundTitle'))
          IN IF current_cwd # Some(P)
             THEN /\ current_cwd' = Some(P)
                  /\ Len(calls') = 1
                  /\ calls'[1].op = "run_command"
                  /\ calls'[1].context = [source |-> "namey", path |-> P]
                  /\ in_flight' = [in_flight EXCEPT ![P] = @ + 1]
                  /\ UNCHANGED <<config, current_tab_index, current_tab_name>>
             ELSE /\ calls' = <<>>
                  /\ UNCHANGED <<state, in_flight>>]_vars

\* The pane update moved the tracked path from one path to another.
C4_Witness ==
    /\ event.kind = "PaneUpdate"
    /\ current_cwd = Some(<<"/", "b", "/", "w", "x", "y", "z">>)
    /\ Len(calls) = 1
    /\ calls[1].op = "run_command"
    /\ in_flight[<<"/", "a">>] = 1

\* C5: a command result whose payload has no source = "namey", or has no
\* path, makes no rename_tab call and changes no field of the state.
C5_ForeignResultDiscarded ==
    [][(/\ event'.kind = "RunCommandResult"
        /\ \/ "source" \notin DOMAIN event'.context
           \/ event'.context.source # "namey"
           \/ "path" \notin DOMAIN event'.context)
       => calls' = <<>> /\ UNCHANGED state]_vars

\* A successful result of somebody else's command arrived for a path whose
\* name is not the one the tab has.
C5_Witness ==
    /\ event.kind = "RunCommandResult"
    /\ event.context = [source |-> "other", path |-> <<"/", "a">>]
    /\ event.exit_code = Some(0)
    /\ event.stdout = <<"m", "a", "i", "n", "\n">>
    /\ current_tab_name = <<"T", "a", "b">>
    /\ calls = <<>>

\* Only whitespace.
Blank(s) == \A i \in 1..Len(s) : s[i] \in WhiteSpace

\* C6: an accepted result with an exit code other than 0, or with exit code
\* 0 and blank stdout, renders the folder alone: the name is the truncated
\* folder_name of the path, with no separator.
C6_FailureRendersFolderOnly ==
    (/\ AcceptedResult
     /\ event.exit_code # Some(0) \/ Blank(event.stdout))
    => LET folder_only == truncate(folder_name(event.context.path),
                                   config.folder_max_len, config.folder_prefix_len,
                                   config.folder_suffix_len)
       IN /\ Blank(event.stdout) => parse_git_branch(event.stdout) = None
          /\ folder_only = format_tab_name(folder_name(event.context.path), None, config)
          /\ calls = IF folder_only # current_tab_name
                     THEN <<RenameTab(current_tab_index, folder_only)>>
                     ELSE <<>>

\* A failed lookup that printed a branch renamed the tab to the folder.
C6_Witness ==
    /\ AcceptedResult
    /\ event.exit_code = Some(128)
    /\ event.stdout = <<"m", "a", "i", "n", "\n">>
    /\ event.context.path = <<"/", "b", "/", "w", "x", "y", "z">>
    /\ config.show_branch
    /\ calls = <<RenameTab(current_tab_index, <<"w", "x", "y", "z">>)>>

\* C7: a pane update whose focused title exposes no path renames the tab to
\* format_tab_name(trimmed title, None, config) exactly when the trimmed
\* title is not empty and that name is not the current tab name; it
\* dispatches nothing and leaves the tracked path alone.
C7_TitleAsLabel ==
    [][(/\ event'.kind = "PaneUpdate"
        /\ IsSome(focused_pane')
        /\ ~IsSome(extract_cwd_from_title(FoundTitle')))
       => LET label == Trim(FoundTitle')
              name == format_tab_name(label, None, config)
          IN /\ calls' = IF Len(label) > 0 /\ name # current_tab_name
                         THEN <<RenameTab(current_tab_index, name)>>
                         ELSE <<>>
             /\ UNCHANGED <<state, in_flight>>]_vars

\* A title with no path, longer than the folder bound, was applied cut down
\* while a path was tracked.
C7_Witness ==
    /\ event.kind = "PaneUpdate"
    /\ focused_pane = Some(PaneInfo(<<"v", "i", "m", "x">>, TRUE, FALSE))
    /\ IsSome(current_cwd)
    /\ calls = <<RenameTab(current_tab_index, <<"v", Ellipsis, "x">>)>>

\* C8: when every tab of a manifest of several tabs has a focused non-plugin
\* pane, the pane handle_pane_update uses is the one of the tab at
\* current_tab_index.
C8_ActiveTabPaneUsed ==
    (/\ event.kind = "PaneUpdate"
     /\ Cardinality(DOMAIN event.pane_manifest) > 1
     /\ \A t \in DOMAIN event.pane_manifest :
            IsSome(FirstFocused(event.pane_manifest[t]))
     /\ current_tab_index \in DOMAIN event.pane_manifest)
    => focused_pane = FirstFocused(event.pane_manifest[current_tab_index])

\* C15: every rename_tab call targets the position of the active tab of the
\* latest tab update that had one (0 before any), read when the rename is
\* made; a tab update with no active tab leaves current_tab_index and
\* current_tab_name alone; no tab update changes the tracked path.
C15_RenameTargetsActiveTab ==
    /\ [](event.kind \in {"None", "Load"} => current_tab_index = 0)
    /\ [][/\ event'.kind = "TabUpdate" =>
              LET info == event'.tab_info
              IN /\ \A i \in 1..Len(info) :
                        (info[i].active /\ \A j \in 1..(i - 1) : ~info[j].active)
                        => /\ current_tab_index' = info[i].position
                           /\ current_tab_name' = info[i].name
                 /\ (\A i \in 1..Len(info) : ~info[i].active)
                        => UNCHANGED <<current_tab_index, current_tab_name>>
                 /\ current_cwd' = current_cwd
                 /\ calls' = <<>>
          /\ event'.kind \in {"PaneUpdate", "RunCommandResult"} =>
                 /\ current_tab_index' = current_tab_index
                 /\ \A i \in 1..Len(calls') :
                        calls'[i].op = "rename_tab"
                        => calls'[i].position = current_tab_index]_vars

\* A lookup result renamed the second tab while its lookup path is tracked.
C15_Witness ==
    /\ AcceptedResult
    /\ current_tab_index = 1
    /\ Len(calls) = 1
    /\ calls[1].op = "rename_tab"
    /\ calls[1].position = 1

\* ------------------------------------------------- truncate on its own
Alphabet == {"a", "b", "c"}

Strings(n) == UNION {[1..k -> Alphabet] : k \in 0..n}

Idle ==
    /\ config = DefaultConfig
    /\ current_cwd = None
    /\ current_tab_index = 0
    /\ current_tab_name = <<>>
    /\ loaded = FALSE
    /\ in_flight = [p \in LookupPaths |-> 0]
    /\ event = [kind |-> "None"]
    /\ focused_pane = None
    /\ calls = <<>>

InitTruncate ==
    /\ Idle
    /\ args \in [fn : {"truncate"}, s : Strings(MaxStrLen), max_len : 0..MaxParam,
                 prefix_len : 0..MaxParam, suffix_len : 0..MaxParam]
    /\ ret = <<>>

\* truncate(s, max_len, prefix_len, suffix_len)
ApplyTruncate ==
    /\ args.fn = "truncate"
    /\ Len(ret) = 0
    /\ ret' = <<truncate(args.s, args.max_len, args.prefix_len, args.suffix_len)>>
    /\ UNCHANGED <<state, loaded, in_flight, event, focused_pane, calls, args>>

\* truncate(r, max_len, prefix_len, suffix_len), r the result of the first call
ApplyTruncateAgain ==
    /\ args.fn = "truncate"
    /\ Len(ret) = 1
    /\ ret' = ret \o
              <<truncate(ret[1], args.max_len, args.prefix_len, args.suffix_len)>>
    /\ UNCHANGED <<state, loaded, in_flight, event, focused_pane, calls, args>>

NextTruncate == ApplyTruncate \/ ApplyTruncateAgain

SpecTruncate == InitTruncate /\ [][NextTruncate]_vars

\* The first n and the last n codepoints of s.
FirstN(s, n) == [i \in 1..n |-> s[i]]
LastN(s, n) == [i \in 1..n |-> s[Len(s) - n + i]]

FolderParams == {<<10, 5, 4>>, <<2, 1, 0>>, <<0, 0, 0>>}
BranchParams == {<<5, 1, 4>>, <<1, 1, 1>>, <<2, 0, 1>>}
Separators == {<<":">>, <<" ", "|", " ">>}

FormatConfigs ==
    {[folder_max_len |-> f[1], folder_prefix_len |-> f[2], folder_suffix_len |-> f[3],
      branch_max_len |-> b[1], branch_prefix_len |-> b[2], branch_suffix_len |-> b[3],
      separator |-> sep, show_branch |-> show] :
        f \in FolderParams, b \in BranchParams, sep \in Separators, show \in BOOLEAN}

InitFormat ==
    /\ Idle
    /\ args \in [fn : {"format_tab_name"}, folder : Strings(MaxNameLen),
                 branch : {None} \cup {Some(b) : b \in Strings(MaxNameLen)},
                 config : FormatConfigs]
    /\ ret = <<>>

\* format_tab_name(folder, branch, config)
ApplyFormatTabName ==
    /\ args.fn = "format_tab_name"
    /\ Len(ret) = 0
    /\ ret' = <<format_tab_name(args.folder, args.branch, args.config)>>
    /\ UNCHANGED <<state, loaded, in_flight, event, focused_pane, calls, args>>

NextFormat == ApplyFormatTabName

SpecFormat == InitFormat /\ [][NextFormat]_vars

\* C11: format_tab_name is the truncated folder, the separator and the
\* truncated branch exactly when show_branch is set and a branch is present,
\* an empty one included; else it is the truncated folder alone.
C11_FormatTabName ==
    Len(ret) = 1 =>
        LET cfg == args.config
            folder_display == truncate(args.folder, cfg.folder_max_len,
                                       cfg.folder_prefix_len, cfg.folder_suffix_len)
        IN /\ (cfg.show_branch /\ args.branch # None) =>
                  ret[1] = folder_display \o cfg.separator \o
                           truncate(args.branch[1], cfg.branch_max_len,
                                    cfg.branch_prefix_len, cfg.branch_suffix_len)
           /\ ~(cfg.show_branch /\ args.branch # None) => ret[1] = folder_display
           /\ ~cfg.show_branch => ret[1] = folder_display

\* An empty branch that is present gives a trailing separator.
C11_Witness ==
    /\ Len(ret) = 1
    /\ args.fn = "format_tab_name"
    /\ args.folder = <<"a", "b", "c">>
    /\ args.branch = Some(<<>>)
    /\ args.config.show_branch
    /\ args.config.folder_max_len = 2
    /\ ret[1] = <<"a", Ellipsis>> \o args.config.separator

\* ----------------------------------- extract_cwd_from_title on its own
TitleAlphabet == {"/", "~", ":", " ", "a"}

TitleStrings(n) == UNION {[1..k -> TitleAlphabet] : k \in 0..n}

InitExtract ==
    /\ Idle
    /\ args \in [fn : {"extract_cwd_from_title"}, title : TitleStrings(MaxTitleLen)]
    /\ ret = <<>>

\* extract_cwd_from_title(title)
ApplyExtract ==
    /\ args.fn = "extract_cwd_from_title"
    /\ Len(ret) = 0
    /\ ret' = <<extract_cwd_from_title(args.title)>>
    /\ UNCHANGED <<state, loaded, in_flight, event, focused_pane, calls, args>>

NextExtract == ApplyExtract

SpecExtract == InitExtract /\ [][NextExtract]_vars

\* t without its leading and trailing whitespace.
Stripped(t) ==
    LET inked == {i \in 1..Len(t) : t[i] \notin {" ", "\n"}}
    IN IF inked = {} THEN <<>>
       ELSE [i \in 1..(1 + (CHOOSE h \in inked : \A j \in inked : j <= h)
                         - (CHOOSE l \in inked : \A j \in inked : l <= j))
             |-> t[i - 1 + (CHOOSE l \in inked : \A j \in inked : l <= j)]]

\* The positions in t where the marker starts.
MarkerAt(t, marker) ==
    {i \in 1..(Len(t) - Len(marker) + 1) :
        \A k \in 1..Len(marker) : t[i + k - 1] = marker[k]}

\* The stripped text of t after the last marker.
AfterLast(t, marker) ==
    LET last == CHOOSE i \in MarkerAt(t, marker) : \A j \in MarkerAt(t, marker) : j <= i
    IN Stripped([i \in 1..(Len(t) - last - Len(marker) + 1) |->
                    t[last + Len(marker) - 1 + i]])

LooksLikePath(t) == Len(t) > 0 /\ t[1] \in {"/", "~"}

\* C12: extract_cwd_from_title applies its rules in this order, the first
\* match wins: no result for a blank title; the text after the last ": "
\* when it starts with / or ~; the whole trimmed title when it starts with
\* / or ~; the text after the last ":" when it starts with / or ~; else no
\* result.  Every path returned starts with / or ~.
C12_ExtractPriority ==
    Len(ret) = 1 =>
        LET t == Stripped(args.title)
            wide == <<":", " ">>
            narrow == <<":">>
        IN /\ ret[1] =
                IF t = <<>> THEN <<>>
                ELSE IF MarkerAt(t, wide) # {} /\ LooksLikePath(AfterLast(t, wide))
                     THEN <<AfterLast(t, wide)>>
                ELSE IF LooksLikePath(t) THEN <<t>>
                ELSE IF MarkerAt(t, narrow) # {} /\ LooksLikePath(AfterLast(t, narrow))
                     THEN <<AfterLast(t, narrow)>>
                ELSE <<>>
           /\ ret[1] # <<>> => LooksLikePath(ret[1][1])

\* A title that starts with a path and has a later ": ~" gave "~".
C12_Witness ==
    /\ Len(ret) = 1
    /\ args.fn = "extract_cwd_from_title"
    /\ args.title = <<"/", "a", ":", " ", "~">>
    /\ ret[1] = Some(<<"~">>)

\* ---------------------------------------------- from_config on its own
ConfigKeys ==
    {"folder_max_len", "folder_prefix_len", "folder_suffix_len",
     "branch_max_len", "branch_prefix_len", "branch_suffix_len",
     "separator", "show_branch"}

OptionValues ==
    { <<"7">>, <<"0">>, <<"+", "2">>, <<"0", "1", "2">>,
      <<"-", "5">>, <<"x">>, <<>>, <<"f", "a", "l", "s", "e">> }

ConfigMaps ==
    UNION {[keys -> OptionValues] :
              keys \in {k \in SUBSET ConfigKeys : Cardinality(k) <= MaxKeys}}

InitConfig ==
    /\ Idle
    /\ args \in [fn : {"from_config"}, options : ConfigMaps]
    /\ ret = <<>>

\* FormatterConfig::from_config(options)
ApplyFromConfig ==
    /\ args.fn = "from_config"
    /\ Len(ret) = 0
    /\ ret' = <<FromConfig(args.options)>>
    /\ UNCHANGED <<state, loaded, in_flight, event, focused_pane, calls, args>>

NextConfig == ApplyFromConfig

SpecConfig == InitConfig /\ [][NextConfig]_vars

\* The option values that are non-negative integers, and the integers.
Parsed ==
    (<<"7">> :> 7) @@ (<<"0">> :> 0) @@ (<<"+", "2">> :> 2) @@ (<<"0", "1", "2">> :> 12)

\* The value from_config is to give a numeric key.
NumericField(options, key, default) ==
    IF key \in DOMAIN options /\ options[key] \in DOMAIN Parsed
    THEN Parsed[options[key]] ELSE default

\* C13: from_config gives each numeric field its parsed option when the key
\* is present and parses, and its default (folder 10/5/4, branch 5/1/4)
\* else; the separator is the option verbatim or ":"; show_branch is false
\* only for a present "false".  Each field depends on its own key alone.
C13_FromConfig ==
    Len(ret) = 1 =>
        LET o == args.options
        IN /\ ret[1].folder_max_len = NumericField(o, "folder_max_len", 10)
           /\ ret[1].folder_prefix_len = NumericField(o, "folder_prefix_len", 5)
           /\ ret[1].folder_suffix_len = NumericField(o, "folder_suffix_len", 4)
           /\ ret[1].branch_max_len = NumericField(o, "branch_max_len", 5)
           /\ ret[1].branch_prefix_len = NumericField(o, "branch_prefix_len", 1)
           /\ ret[1].branch_suffix_len = NumericField(o, "branch_suffix_len", 4)
           /\ ret[1].separator =
                  IF "separator" \in DOMAIN o THEN o["separator"] ELSE <<":">>
           /\ ret[1].show_branch =
                  ~("show_branch" \in DOMAIN o
                    /\ o["show_branch"] = <<"f", "a", "l", "s", "e">>)

\* A value that is no number kept its default next to one that parsed.
C13_Witness ==
    /\ Len(ret) = 1
    /\ args.fn = "from_config"
    /\ args.options = [folder_max_len |-> <<"-", "5">>, branch_max_len |-> <<"7">>]
    /\ ret[1].folder_max_len = 10
    /\ ret[1].branch_max_len = 7

\* ------------------------------------ truncate and format_tab_name both
InitLength == InitTruncate \/ InitFormat

NextLength == ApplyTruncate \/ ApplyTruncateAgain \/ ApplyFormatTabName

SpecLength == InitLength /\ [][NextLength]_vars

====
